---- MODULE Spec2Model ----
(***************************************************************************)
(* Model of the habit-streak and task-dependency logic of the goal/habit/  *)
(* task tracker: the streak helpers and the Habits page of Goals.tsx, the  *)
(* Tasks page, the task form and the Dashboard quick-complete handler.     *)
(*                                                                         *)
(* Calendar dates ("YYYY-MM-DD" strings in the code) are day numbers: the  *)
(* string order used by localeCompare is the order of the day numbers, and *)
(* new Date(s + 'T00:00:00Z') is the UTC midnight of day s.  A Date object *)
(* that holds a UTC midnight is modelled by its UTC day number; reading it *)
(* with the local getters (getFullYear/getMonth/getDate) gives the local   *)
(* calendar day of that instant, which is the day before in a time zone    *)
(* west of UTC (LocalDayOfUTCMidnight).                                    *)
(***************************************************************************)
EXTENDS Integers, Sequences, FiniteSets, Bags, TLC

\* ---------------------------------------------------------------- bounds
\* calendar days are 0..MaxDay
MaxDay == 4
\* longest event list given to the streak helpers
MaxLen == 4

\* handler calls (track, un-track, quick-complete) started during a run
MaxCalls == 2
\* user actions on the task pages (toggle, delete, quick-complete, opening
\* the form, submitting it) during a run
MaxTaskOps == 3

Days == 0..MaxDay
Habits == {"h1", "h2"}
NewHabitId == "h3"
AllHabits == Habits \cup {NewHabitId}
TimeZones == {"west", "utc", "east"}

VARIABLES
    \* the browser clock
    tz,          \* sign of the browser's UTC offset
    localDay,    \* calendar day of new Date() read with local getters
    utcDay,      \* calendar day of new Date().toISOString()
    \* streak helpers applied to one event list
    sEvents,     \* progressEvents argument
    sDone,       \* TRUE once the helpers have run
    sCurrent,    \* result of calculateCurrentStreak
    sLongest,    \* result of calculateLongestStreak
    \* the store: progress_events rows with a habit_id, habits rows
    dbProgress,
    dbHabits,    \* ids of the habits rows
    nextEventId, \* next fresh row id; every started handler call takes one
    \* HabitsPage state
    habits,      \* ids of the habits in the list
    hLoading, hError,
    allProgress, habitStreaks, longestStreaks, totalCompletions, todaysProgressMap,
    hCalls,      \* handleTrackHabit calls awaiting the store (a bag: the calls are unordered)
    \* DashboardPage state
    dLoading, completedHabitsToday, tasksDueToday,
    \* the store: tasks and task_dependencies rows
    dbTasks,     \* id -> completed, for the rows that exist
    dbDeps,      \* set of [blocking_task_id, dependent_task_id]
    newTaskUsed, \* the id the store gives a created task has been handed out
    \* TasksPage state
    tLoading, tError,
    tasks,       \* id -> TaskWithDetails, for the members of the list
    editingTask, \* <<>> (null) or <<task>>
    showCreateForm,
    tCalls,      \* handleToggleComplete / handleDeleteTask calls awaiting the store
    tCallCount,  \* user actions on the task pages so far
    \* TaskForm state
    availableTasks, selectedBlockingTaskIds, depsFetch, formError,
    \* processTasksWithDependencies applied to arbitrary arguments
    pRawTasks, pDependencies, pDone, pResult

clockVars == <<tz, localDay, utcDay>>
streakVars == <<sEvents, sDone, sCurrent, sLongest>>
habitStoreVars == <<dbProgress, nextEventId, dbHabits>>
habitPageVars == <<habits, hLoading, hError, allProgress, habitStreaks, longestStreaks,
                   totalCompletions, todaysProgressMap, hCalls>>
dashVars == <<dLoading, completedHabitsToday, tasksDueToday>>
taskStoreVars == <<dbTasks, dbDeps, newTaskUsed>>
taskPageVars == <<tLoading, tError, tasks, editingTask, showCreateForm, tCalls, tCallCount>>
formVars == <<availableTasks, selectedBlockingTaskIds, depsFetch, formError>>
processVars == <<pRawTasks, pDependencies, pDone, pResult>>
taskVars == <<dbTasks, dbDeps, newTaskUsed, tLoading, tError, tasks, editingTask,
              showCreateForm, tCalls, tCallCount, availableTasks,
              selectedBlockingTaskIds, depsFetch, formError>>
vars == <<tz, localDay, utcDay, sEvents, sDone, sCurrent, sLongest,
          dbProgress, nextEventId, dbHabits,
          habits, hLoading, hError, allProgress, habitStreaks, longestStreaks,
          totalCompletions, todaysProgressMap, hCalls,
          dLoading, completedHabitsToday, tasksDueToday,
          dbTasks, dbDeps, newTaskUsed, tLoading, tError, tasks, editingTask,
          showCreateForm, tCalls, tCallCount, availableTasks,
          selectedBlockingTaskIds, depsFetch, formError,
          pRawTasks, pDependencies, pDone, pResult>>

\* ---------------------------------------------------------------- clock
\* getFullYear/getMonth/getDate of a Date holding the UTC midnight of day d
LocalDayOfUTCMidnight(d) == IF tz = "west" THEN d - 1 ELSE d

getTodayDateString == utcDay

\* the local and the UTC calendar day differ by at most one, on the side
\* the zone's offset allows
ClockOK(z, l, u) ==
    \/ l = u
    \/ z = "west" /\ l = u - 1
    \/ z = "east" /\ l = u + 1

\* ---------------------------------------------------------------- sorting
\* Array.prototype.sort is stable: e goes behind every element it does not
\* strictly precede
InsertSorted(s, e, desc) ==
    LET NotAfter(x) == IF desc THEN x.event_date >= e.event_date
                               ELSE x.event_date <= e.event_date
        k == Cardinality({i \in 1..Len(s) : NotAfter(s[i])})
    IN SubSeq(s, 1, k) \o <<e>> \o SubSeq(s, k + 1, Len(s))

RECURSIVE SortEvents(_, _)
SortEvents(s, desc) ==
    IF s = <<>> THEN <<>>
    ELSE InsertSorted(SortEvents(SubSeq(s, 1, Len(s) - 1), desc), s[Len(s)], desc)

\* ---------------------------------------------------------------- streaks
\* the for loop of calculateCurrentStreak: expectedDate is a UTC midnight,
\* expectedDateUTC is rebuilt from its local getters
RECURSIVE CurrentStreakLoop(_, _, _, _)
CurrentStreakLoop(sortedEvents, i, streak, expectedDate) ==
    IF i > Len(sortedEvents) THEN streak
    ELSE LET eventDate == sortedEvents[i].event_date
             expectedDateUTC == LocalDayOfUTCMidnight(expectedDate)
         IN IF eventDate = expectedDateUTC
            THEN CurrentStreakLoop(sortedEvents, i + 1, streak + 1, expectedDate - 1)
            ELSE streak

\* variant: the check that the most recent event is today or yesterday is
\* left out
calculateCurrentStreak_NoStaleCheck(progressEvents) ==
    IF Len(progressEvents) = 0 THEN 0
    ELSE LET sortedEvents == SortEvents(progressEvents, TRUE)
             mostRecentEventDate == sortedEvents[1].event_date
             todayUTC == localDay
             yesterdayUTC == todayUTC - 1
         IN IF mostRecentEventDate = todayUTC
            THEN CurrentStreakLoop(sortedEvents, 2, 1, yesterdayUTC)
            ELSE CurrentStreakLoop(sortedEvents, 1, 1, yesterdayUTC - 1)

\* variant: the streak is 0 only when the most recent event is older than
\* yesterday
calculateCurrentStreak_StaleIfOlder(progressEvents) ==
    IF Len(progressEvents) = 0 THEN 0
    ELSE LET sortedEvents == SortEvents(progressEvents, TRUE)
             mostRecentEventDate == sortedEvents[1].event_date
             todayUTC == localDay
             yesterdayUTC == todayUTC - 1
         IN IF mostRecentEventDate < yesterdayUTC
            THEN 0
            ELSE IF mostRecentEventDate = todayUTC
                 THEN CurrentStreakLoop(sortedEvents, 2, 1, yesterdayUTC)
                 ELSE CurrentStreakLoop(sortedEvents, 1, 1, yesterdayUTC - 1)

calculateCurrentStreak(progressEvents) ==
    IF Len(progressEvents) = 0 THEN 0
    ELSE LET sortedEvents == SortEvents(progressEvents, TRUE)
             mostRecentEventDate == sortedEvents[1].event_date
             todayUTC == localDay
             yesterdayUTC == todayUTC - 1
         IN IF mostRecentEventDate # todayUTC /\ mostRecentEventDate # yesterdayUTC
            THEN 0
            ELSE IF mostRecentEventDate = todayUTC
                 THEN CurrentStreakLoop(sortedEvents, 2, 1, yesterdayUTC)
                 ELSE CurrentStreakLoop(sortedEvents, 1, 1, yesterdayUTC - 1)

Max(a, b) == IF a >= b THEN a ELSE b

\* the for loop of calculateLongestStreak; previousEventDate is <<>> (null)
\* before the first event and <<d>> afterwards
RECURSIVE LongestStreakLoop(_, _, _, _, _)
LongestStreakLoop(sortedEvents, i, longestStreak, currentStreak, previousEventDate) ==
    IF i > Len(sortedEvents) THEN Max(longestStreak, currentStreak)
    ELSE LET currentEventDate == sortedEvents[i].event_date
             isSameDay == previousEventDate # <<>> /\ currentEventDate = previousEventDate[1]
             isConsecutiveDay == previousEventDate # <<>>
                                 /\ currentEventDate = previousEventDate[1] + 1
         IN IF isSameDay
            THEN LongestStreakLoop(sortedEvents, i + 1, longestStreak, currentStreak,
                                   previousEventDate)
            ELSE LET cs == IF previousEventDate = <<>> THEN 1
                           ELSE IF isConsecutiveDay THEN currentStreak + 1
                           ELSE 1
                     ls == Max(Max(longestStreak, currentStreak), cs)
                 IN LongestStreakLoop(sortedEvents, i + 1, ls, cs, <<currentEventDate>>)

\* variant: the events are walked in the order given, without the sort
calculateLongestStreak_Unsorted(progressEvents) ==
    IF Len(progressEvents) < 1 THEN 0
    ELSE LongestStreakLoop(progressEvents, 1, 0, 0, <<>>)

calculateLongestStreak(progressEvents) ==
    IF Len(progressEvents) < 1 THEN 0
    ELSE LongestStreakLoop(SortEvents(progressEvents, FALSE), 1, 0, 0, <<>>)


\* ---------------------------------------------------------------- parts not in use
EmptyMap == [h \in {} |-> 0]

HabitsIdle ==
    /\ dbProgress = {}
    /\ nextEventId = 1
    /\ dbHabits = {}
    /\ habits = {}
    /\ hLoading = TRUE
    /\ hError = FALSE
    /\ allProgress = EmptyMap
    /\ habitStreaks = EmptyMap
    /\ longestStreaks = EmptyMap
    /\ totalCompletions = EmptyMap
    /\ todaysProgressMap = EmptyMap
    /\ hCalls = EmptyBag
    /\ dLoading = TRUE
    /\ completedHabitsToday = {}
    /\ tasksDueToday = {}

TasksIdle ==
    /\ dbTasks = EmptyMap
    /\ dbDeps = {}
    /\ newTaskUsed = FALSE
    /\ tLoading = TRUE
    /\ tError = FALSE
    /\ tasks = EmptyMap
    /\ editingTask = <<>>
    /\ showCreateForm = FALSE
    /\ tCalls = EmptyBag
    /\ tCallCount = 0
    /\ availableTasks = {}
    /\ selectedBlockingTaskIds = {}
    /\ depsFetch = "none"
    /\ formError = FALSE

ProcessIdle ==
    /\ pRawTasks = EmptyMap
    /\ pDependencies = {}
    /\ pDone = FALSE
    /\ pResult = EmptyMap

ClockIdle ==
    /\ tz = "utc"
    /\ localDay = 0
    /\ utcDay = 0

StreakIdle ==
    /\ sEvents = <<>>
    /\ sDone = FALSE
    /\ sCurrent = 0
    /\ sLongest = 0

\* ---------------------------------------------------------------- streak helpers on arbitrary lists
\* every list of at most MaxLen events, in any order, duplicates allowed
EventLists ==
    UNION {{[i \in 1..n |-> [id |-> i, event_date |-> f[i]]] : f \in [1..n -> Days]}
           : n \in 0..MaxLen}

StreakInit ==
    /\ tz \in TimeZones
    /\ localDay \in 0..(MaxDay + 1)
    /\ utcDay = localDay
    /\ sEvents \in EventLists
    /\ sDone = FALSE
    /\ sCurrent = 0
    /\ sLongest = 0
    /\ HabitsIdle
    /\ TasksIdle
    /\ ProcessIdle

StreakCalc ==
    /\ ~sDone
    /\ sDone' = TRUE
    /\ sCurrent' = calculateCurrentStreak(sEvents)
    /\ sLongest' = calculateLongestStreak(sEvents)
    /\ UNCHANGED <<sEvents, tz, localDay, utcDay>>
    /\ UNCHANGED <<habitStoreVars, habitPageVars, dashVars, taskVars, processVars>>

StreakNext == StreakCalc

StreakSpec == StreakInit /\ [][StreakNext]_vars

\* ---------------------------------------------------------------- the store's progress_events
Get(m, k, default) == IF k \in DOMAIN m THEN m[k] ELSE default

MapSet(m, k, v) == [x \in (DOMAIN m) \cup {k} |-> IF x = k THEN v ELSE m[x]]

\* .order('event_date', { ascending: false }): rows by date descending; the
\* order of rows of one date is the store's choice (by id, either way)
RECURSIVE QueryOrder(_, _)
QueryOrder(rows, idAsc) ==
    IF rows = {} THEN <<>>
    ELSE LET first == CHOOSE e \in rows : \A o \in rows :
                        \/ o = e
                        \/ e.event_date > o.event_date
                        \/ /\ e.event_date = o.event_date
                           /\ IF idAsc THEN e.id < o.id ELSE e.id > o.id
         IN <<first>> \o QueryOrder(rows \ {first}, idAsc)

SeedId(h, d) == 100 + 10 * (IF h = "h1" THEN 1 ELSE 2) + d

\* ---------------------------------------------------------------- HabitsPage
\* variant: the analytics loop runs over the habits that have events
fetchData_OnlyHabitsWithEvents ==
    /\ hCalls = EmptyBag
    /\ \E idAsc \in BOOLEAN :
        LET todayStr == getTodayDateString
            allFetchedProgress == QueryOrder(dbProgress, idAsc)
            progressMap == [h \in {e.habit_id : e \in dbProgress} |->
                              SelectSeq(allFetchedProgress, LAMBDA e : e.habit_id = h)]
            todayMap == [h \in {e.habit_id : e \in {x \in dbProgress : x.event_date = todayStr}}
                           |-> TRUE]
            fetchedHabits == dbHabits
        IN /\ habits' = fetchedHabits
           /\ allProgress' = progressMap
           /\ todaysProgressMap' = todayMap
           /\ habitStreaks' = [h \in fetchedHabits \cap DOMAIN progressMap |->
                                 calculateCurrentStreak(Get(progressMap, h, <<>>))]
           /\ longestStreaks' = [h \in fetchedHabits \cap DOMAIN progressMap |->
                                   calculateLongestStreak(Get(progressMap, h, <<>>))]
           /\ totalCompletions' = [h \in fetchedHabits \cap DOMAIN progressMap |-> Len(Get(progressMap, h, <<>>))]
    /\ hLoading' = FALSE
    /\ hError' = FALSE
    /\ UNCHANGED <<hCalls, habitStoreVars, dashVars, clockVars, streakVars, taskVars, processVars>>

\* mount of the page and fetchData: every map is rebuilt from the store
fetchData ==
    /\ hCalls = EmptyBag
    /\ \E idAsc \in BOOLEAN :
        LET todayStr == getTodayDateString
            allFetchedProgress == QueryOrder(dbProgress, idAsc)
            progressMap == [h \in {e.habit_id : e \in dbProgress} |->
                              SelectSeq(allFetchedProgress, LAMBDA e : e.habit_id = h)]
            todayMap == [h \in {e.habit_id : e \in {x \in dbProgress : x.event_date = todayStr}}
                           |-> TRUE]
            fetchedHabits == dbHabits
        IN /\ habits' = fetchedHabits
           /\ allProgress' = progressMap
           /\ todaysProgressMap' = todayMap
           /\ habitStreaks' = [h \in fetchedHabits |->
                                 calculateCurrentStreak(Get(progressMap, h, <<>>))]
           /\ longestStreaks' = [h \in fetchedHabits |->
                                   calculateLongestStreak(Get(progressMap, h, <<>>))]
           /\ totalCompletions' = [h \in fetchedHabits |-> Len(Get(progressMap, h, <<>>))]
    /\ hLoading' = FALSE
    /\ hError' = FALSE
    /\ UNCHANGED <<hCalls, habitStoreVars, dashVars, clockVars, streakVars, taskVars, processVars>>

\* handleSubmit of HabitForm followed by handleSaveHabit(savedHabit). An edit
\* replaces the habit in the list by its saved row, which leaves the ids and
\* every map alone; a creation inserts the row and gives the new habit an
\* entry in every map
handleSaveHabit(savedHabit, editingHabit) ==
    IF editingHabit
    THEN /\ ~hLoading /\ ~hError
         /\ savedHabit \in habits
         /\ savedHabit \in dbHabits
         /\ UNCHANGED vars
    ELSE /\ savedHabit = NewHabitId
         /\ savedHabit \notin dbHabits
         /\ dbHabits' = dbHabits \cup {savedHabit}
         /\ habits' = habits \cup {savedHabit}
         /\ allProgress' = MapSet(allProgress, savedHabit, <<>>)
         /\ habitStreaks' = MapSet(habitStreaks, savedHabit, 0)
         /\ longestStreaks' = MapSet(longestStreaks, savedHabit, 0)
         /\ totalCompletions' = MapSet(totalCompletions, savedHabit, 0)
         /\ todaysProgressMap' = MapSet(todaysProgressMap, savedHabit, FALSE)
         /\ UNCHANGED <<dbProgress, nextEventId, hLoading, hError, hCalls, dashVars,
                        clockVars, streakVars, taskVars, processVars>>

\* handleTrackHabit(habitId, wasCompletedToday = false) up to the insert: the
\* closure keeps the allProgress of the render the click happened in
handleTrackHabit_Track(h) ==
    /\ ~hLoading /\ ~hError
    /\ h \in habits
    /\ ~Get(todaysProgressMap, h, FALSE)
    /\ nextEventId <= MaxCalls
    /\ hCalls' = hCalls (+) SetToBag({
                        [habitId |-> h, wasCompletedToday |-> FALSE,
                         progress |-> Get(allProgress, h, <<>>),
                         event |-> [id |-> nextEventId, habit_id |-> h,
                                    event_date |-> getTodayDateString],
                         phase |-> "sent"]})
    /\ nextEventId' = nextEventId + 1
    /\ UNCHANGED <<dbProgress, dbHabits, habits, hLoading, hError, allProgress, habitStreaks, longestStreaks,
                   totalCompletions, todaysProgressMap, dashVars, clockVars, streakVars, taskVars, processVars>>

TodaysEvents(progress) == SelectSeq(progress, LAMBDA e : e.event_date = getTodayDateString)

\* handleTrackHabit(habitId, wasCompletedToday = true) up to the delete
handleTrackHabit_Untrack(h) ==
    /\ ~hLoading /\ ~hError
    /\ h \in habits
    /\ Get(todaysProgressMap, h, FALSE)
    /\ TodaysEvents(Get(allProgress, h, <<>>)) # <<>>
    /\ nextEventId <= MaxCalls
    /\ nextEventId' = nextEventId + 1
    /\ hCalls' = hCalls (+) SetToBag({
                        [habitId |-> h, wasCompletedToday |-> TRUE,
                         progress |-> Get(allProgress, h, <<>>),
                         event |-> TodaysEvents(Get(allProgress, h, <<>>))[1],
                         phase |-> "sent"]})
    /\ UNCHANGED <<dbProgress, dbHabits, habits, hLoading, hError, allProgress, habitStreaks,
                   longestStreaks, totalCompletions, todaysProgressMap, dashVars,
                   clockVars, streakVars, taskVars, processVars>>

\* handleTrackHabit(habitId, true) when no local event is dated today: the
\* early return
handleTrackHabit_NotFound(h) ==
    /\ ~hLoading /\ ~hError
    /\ h \in habits
    /\ Get(todaysProgressMap, h, FALSE)
    /\ TodaysEvents(Get(allProgress, h, <<>>)) = <<>>
    /\ UNCHANGED vars

\* the store executes the insert or the delete of call c
StoreProgressOk(c) ==
    /\ BagIn(c, hCalls)
    /\ c.phase = "sent"
    /\ dbProgress' = IF c.wasCompletedToday
                     THEN {e \in dbProgress : e.id # c.event.id}
                     ELSE dbProgress \cup {c.event}
    /\ hCalls' = (hCalls (-) SetToBag({c})) (+) SetToBag({[c EXCEPT !.phase = "ok"]})
    /\ UNCHANGED <<nextEventId, dbHabits, habits, hLoading, hError, allProgress, habitStreaks, longestStreaks,
                   totalCompletions, todaysProgressMap, dashVars, clockVars, streakVars, taskVars, processVars>>

\* variant: the maps are rebuilt from an empty Map instead of the previous one
handleTrackHabit_Return_FreshMaps(c) ==
    /\ BagIn(c, hCalls)
    /\ c.phase = "ok"
    /\ hCalls' = hCalls (-) SetToBag({c})
    /\ LET habitId == c.habitId
           updatedProgressForHabit ==
               IF c.wasCompletedToday
               THEN SelectSeq(c.progress, LAMBDA e : e.id # c.event.id)
               ELSE <<c.event>> \o c.progress
       IN /\ allProgress' = MapSet(EmptyMap, habitId, updatedProgressForHabit)
          /\ todaysProgressMap' = MapSet(EmptyMap, habitId, ~c.wasCompletedToday)
          /\ habitStreaks' = MapSet(EmptyMap, habitId,
                                    calculateCurrentStreak(updatedProgressForHabit))
          /\ longestStreaks' = MapSet(EmptyMap, habitId,
                                      calculateLongestStreak(updatedProgressForHabit))
          /\ totalCompletions' = MapSet(EmptyMap, habitId,
                                        Len(updatedProgressForHabit))
    /\ UNCHANGED <<habits, hError, habitStoreVars, hLoading, dashVars, clockVars, streakVars, taskVars, processVars>>

\* the rest of handleTrackHabit after the await, the store call having
\* succeeded
handleTrackHabit_Return(c) ==
    /\ BagIn(c, hCalls)
    /\ c.phase = "ok"
    /\ hCalls' = hCalls (-) SetToBag({c})
    /\ LET habitId == c.habitId
           updatedProgressForHabit ==
               IF c.wasCompletedToday
               THEN SelectSeq(c.progress, LAMBDA e : e.id # c.event.id)
               ELSE <<c.event>> \o c.progress
       IN /\ allProgress' = MapSet(allProgress, habitId, updatedProgressForHabit)
          /\ todaysProgressMap' = MapSet(todaysProgressMap, habitId, ~c.wasCompletedToday)
          /\ habitStreaks' = MapSet(habitStreaks, habitId,
                                    calculateCurrentStreak(updatedProgressForHabit))
          /\ longestStreaks' = MapSet(longestStreaks, habitId,
                                      calculateLongestStreak(updatedProgressForHabit))
          /\ totalCompletions' = MapSet(totalCompletions, habitId,
                                        Len(updatedProgressForHabit))
    /\ UNCHANGED <<habits, hError, habitStoreVars, hLoading, dashVars, clockVars, streakVars, taskVars, processVars>>

\* the rest of handleTrackHabit after the await of an insert whose result
\* holds no error and no row (data is null): the "if (data)" block is
\* skipped, updatedProgressForHabit is still [] and the analytics are set
\* from it
handleTrackHabit_ReturnNoRow(c) ==
    /\ BagIn(c, hCalls)
    /\ c.phase = "ok"
    /\ ~c.wasCompletedToday
    /\ hCalls' = hCalls (-) SetToBag({c})
    /\ LET habitId == c.habitId
           updatedProgressForHabit == <<>>
       IN /\ habitStreaks' = MapSet(habitStreaks, habitId,
                                    calculateCurrentStreak(updatedProgressForHabit))
          /\ longestStreaks' = MapSet(longestStreaks, habitId,
                                      calculateLongestStreak(updatedProgressForHabit))
          /\ totalCompletions' = MapSet(totalCompletions, habitId,
                                        Len(updatedProgressForHabit))
    /\ UNCHANGED <<habits, allProgress, todaysProgressMap, hError, habitStoreVars, hLoading,
                   dashVars, clockVars, streakVars, taskVars, processVars>>

\* variant: the completed-today flag is flipped before the store call and not
\* put back when the call fails
handleTrackHabit_Error_FlagFlipped(c) ==
    /\ BagIn(c, hCalls)
    /\ c.phase = "sent"
    /\ hCalls' = hCalls (-) SetToBag({c})
    /\ hError' = TRUE
    /\ todaysProgressMap' = MapSet(todaysProgressMap, c.habitId, ~c.wasCompletedToday)
    /\ UNCHANGED <<habits, allProgress, habitStreaks, longestStreaks, totalCompletions,
                   habitStoreVars, hLoading, dashVars, clockVars,
                   streakVars, taskVars, processVars>>

\* the store call of call c fails (deleteError / insertError is thrown): the
\* catch block sets the error message and nothing else
handleTrackHabit_Error(c) ==
    /\ BagIn(c, hCalls)
    /\ c.phase = "sent"
    /\ hCalls' = hCalls (-) SetToBag({c})
    /\ hError' = TRUE
    /\ UNCHANGED <<habits, allProgress, habitStreaks, longestStreaks, totalCompletions,
                   todaysProgressMap, habitStoreVars, hLoading, dashVars, clockVars,
                   streakVars, taskVars, processVars>>

\* ---------------------------------------------------------------- Dashboard (habits)
\* fetchData of the Dashboard: the habits with an event dated today
DashboardFetchData ==
    /\ completedHabitsToday' =
          {e.habit_id : e \in {x \in dbProgress : x.event_date = getTodayDateString}}
    /\ tasksDueToday' = {t \in DOMAIN dbTasks : ~dbTasks[t]}
    /\ dLoading' = FALSE
    /\ UNCHANGED <<habitStoreVars, habitPageVars, clockVars, streakVars, taskVars, processVars>>

\* handleCompleteHabit of a habit listed under habitsToDoToday
handleCompleteHabit(h) ==
    /\ ~dLoading
    /\ h \notin completedHabitsToday
    /\ nextEventId <= MaxCalls
    /\ dbProgress' = dbProgress \cup {[id |-> nextEventId, habit_id |-> h,
                                       event_date |-> getTodayDateString]}
    /\ nextEventId' = nextEventId + 1
    /\ completedHabitsToday' = completedHabitsToday \cup {h}
    /\ UNCHANGED <<dbHabits, dLoading, tasksDueToday, habitPageVars, clockVars, streakVars, taskVars, processVars>>

\* midnight passes, locally or in UTC
ClockTick ==
    /\ \E l \in {localDay, localDay + 1}, u \in {utcDay, utcDay + 1} :
          /\ <<l, u>> # <<localDay, utcDay>>
          /\ ClockOK(tz, l, u)
          /\ u <= MaxDay
          /\ localDay' = l
          /\ utcDay' = u
    /\ UNCHANGED <<tz, habitStoreVars, habitPageVars, dashVars, streakVars, taskVars, processVars>>

\* the store holds, for each habit, events on some of the two days before
\* the first day of the run
SeedDays == {MaxDay - 3, MaxDay - 2}

Seeds == {f \in [Habits -> SUBSET SeedDays] :
            f["h1"] \in {{}, SeedDays} /\ f["h2"] = {MaxDay - 2}}

HabitsInit ==
    /\ tz \in TimeZones
    /\ utcDay = MaxDay - 1
    /\ localDay \in {utcDay - 1, utcDay, utcDay + 1}
    /\ ClockOK(tz, localDay, utcDay)
    /\ \E seed \in Seeds :
          dbProgress = {[id |-> SeedId(h, d), habit_id |-> h, event_date |-> d] :
                          <<h, d>> \in {x \in Habits \X SeedDays : x[2] \in seed[x[1]]}}
    /\ nextEventId = 1
    /\ dbHabits = Habits
    /\ habits = {}
    /\ hLoading = TRUE
    /\ hError = FALSE
    /\ allProgress = EmptyMap
    /\ habitStreaks = EmptyMap
    /\ longestStreaks = EmptyMap
    /\ totalCompletions = EmptyMap
    /\ todaysProgressMap = EmptyMap
    /\ hCalls = EmptyBag
    /\ dLoading = TRUE
    /\ completedHabitsToday = {}
    /\ tasksDueToday = {}
    /\ StreakIdle
    /\ TasksIdle
    /\ ProcessIdle

HabitsNext ==
    \/ fetchData
    \/ \E h \in AllHabits : handleTrackHabit_Track(h)
    \/ \E h \in AllHabits : handleTrackHabit_Untrack(h)
    \/ \E h \in AllHabits : handleTrackHabit_NotFound(h)
    \/ \E c \in BagToSet(hCalls) : StoreProgressOk(c)
    \/ \E c \in BagToSet(hCalls) : handleTrackHabit_Return(c)
    \/ \E c \in BagToSet(hCalls) : handleTrackHabit_ReturnNoRow(c)
    \/ \E c \in BagToSet(hCalls) : handleTrackHabit_Error(c)
    \/ DashboardFetchData
    \/ \E h \in Habits : handleCompleteHabit(h)
    \/ ClockTick

HabitsSpec == HabitsInit /\ [][HabitsNext]_vars

\* the Habits page alone within one day, with the creation and the edit of
\* habits
HabitListNext ==
    \/ fetchData
    \/ \E h \in AllHabits, editingHabit \in BOOLEAN : handleSaveHabit(h, editingHabit)
    \/ \E h \in AllHabits : handleTrackHabit_Track(h)
    \/ \E h \in AllHabits : handleTrackHabit_Untrack(h)
    \/ \E c \in BagToSet(hCalls) : StoreProgressOk(c)
    \/ \E c \in BagToSet(hCalls) : handleTrackHabit_Return(c)
    \/ \E c \in BagToSet(hCalls) : handleTrackHabit_ReturnNoRow(c)
    \/ \E c \in BagToSet(hCalls) : handleTrackHabit_Error(c)

HabitListSpec == HabitsInit /\ [][HabitListNext]_vars

\* the Habits page alone within one day, every store call answering with
\* its row or with an error; the store may already hold two events of h1
\* dated today
HabitClicksInit ==
    /\ tz \in TimeZones
    /\ utcDay = MaxDay - 1
    /\ localDay \in {utcDay - 1, utcDay, utcDay + 1}
    /\ ClockOK(tz, localDay, utcDay)
    /\ \E seed \in Seeds, todays \in {{}, {1, 2}} :
          dbProgress =
              {[id |-> SeedId(h, d), habit_id |-> h, event_date |-> d] :
                  <<h, d>> \in {x \in Habits \X SeedDays : x[2] \in seed[x[1]]}}
              \cup {[id |-> SeedId("h1", utcDay) + i, habit_id |-> "h1",
                     event_date |-> utcDay] : i \in todays}
    /\ nextEventId = 1
    /\ dbHabits = Habits
    /\ habits = {}
    /\ hLoading = TRUE
    /\ hError = FALSE
    /\ allProgress = EmptyMap
    /\ habitStreaks = EmptyMap
    /\ longestStreaks = EmptyMap
    /\ totalCompletions = EmptyMap
    /\ todaysProgressMap = EmptyMap
    /\ hCalls = EmptyBag
    /\ dLoading = TRUE
    /\ completedHabitsToday = {}
    /\ tasksDueToday = {}
    /\ StreakIdle
    /\ TasksIdle
    /\ ProcessIdle

HabitClicksNext ==
    \/ fetchData
    \/ \E h \in AllHabits : handleTrackHabit_Track(h)
    \/ \E h \in AllHabits : handleTrackHabit_Untrack(h)
    \/ \E c \in BagToSet(hCalls) : StoreProgressOk(c)
    \/ \E c \in BagToSet(hCalls) : handleTrackHabit_Return(c)
    \/ \E c \in BagToSet(hCalls) : handleTrackHabit_Error(c)

HabitClicksSpec == HabitClicksInit /\ [][HabitClicksNext]_vars

\* ---------------------------------------------------------------- TasksPage: dependency processing
TaskIds == {"A", "B", "C"}
NewTaskId == "D"
AllTaskIds == TaskIds \cup {NewTaskId}

Edge(b, d) == [blocking_task_id |-> b, dependent_task_id |-> d]

\* variant: a task is blocked by any blocker of the list, complete or not
processTasksWithDependencies_AnyBlocker(rawTasks, dependencies) ==
    LET blockedBy(t) ==
            {[id |-> dep.blocking_task_id, completed |-> rawTasks[dep.blocking_task_id]] :
                dep \in {d \in dependencies : /\ d.dependent_task_id = t
                                              /\ d.blocking_task_id \in DOMAIN rawTasks}}
    IN [t \in DOMAIN rawTasks |->
          [id |-> t,
           completed |-> rawTasks[t],
           blockingTasks |-> blockedBy(t),
           isBlocked |-> blockedBy(t) # {}]]

\* rawTasks: id -> completed; dependencies: set of task_dependencies rows.
\* blockedByMap gets an entry only for a dependency whose blocking task is in
\* taskMap
processTasksWithDependencies(rawTasks, dependencies) ==
    LET blockedBy(t) ==
            {[id |-> dep.blocking_task_id, completed |-> rawTasks[dep.blocking_task_id]] :
                dep \in {d \in dependencies : /\ d.dependent_task_id = t
                                              /\ d.blocking_task_id \in DOMAIN rawTasks}}
    IN [t \in DOMAIN rawTasks |->
          [id |-> t,
           completed |-> rawTasks[t],
           blockingTasks |-> blockedBy(t),
           isBlocked |-> \E blocker \in blockedBy(t) : ~blocker.completed]]

\* ---------------------------------------------------------------- TasksPage
\* The user works either in the list or in the form: a row's checkbox or
\* delete button is used while no form is shown, and a form is opened while
\* no toggle or delete is awaiting the store.
\* mount of the page and fetchTasksAndDeps
fetchTasksAndDeps ==
    /\ tCalls = EmptyBag
    /\ tasks' = processTasksWithDependencies(dbTasks, dbDeps)
    /\ tLoading' = FALSE
    /\ tError' = FALSE
    /\ editingTask' = <<>>
    /\ showCreateForm' = FALSE
    /\ availableTasks' = {}
    /\ selectedBlockingTaskIds' = {}
    /\ depsFetch' = "none"
    /\ formError' = FALSE
    /\ UNCHANGED <<tCalls, tCallCount, taskStoreVars, dashVars, clockVars, streakVars,
                   habitStoreVars, habitPageVars, processVars>>

\* the form is rendered
FormVisible == showCreateForm \/ editingTask # <<>>

\* the row of task t is rendered
RowShown(t) ==
    /\ ~tLoading
    /\ ~tError
    /\ t \in DOMAIN tasks
    /\ IF editingTask = <<>> THEN TRUE ELSE editingTask[1].id # t

\* the checkbox is disabled for a task that is blocked and incomplete
CheckboxEnabled(t) == ~(tasks[t].isBlocked /\ ~tasks[t].completed)

\* variant: the blocked guard shows the alert but does not return
handleToggleComplete_BlockedSends(t) ==
    /\ RowShown(t)
    /\ ~FormVisible
    /\ CheckboxEnabled(t)
    /\ tasks[t].isBlocked
    /\ tCallCount < MaxTaskOps
    /\ tCallCount' = tCallCount + 1
    /\ tCalls' = tCalls (+) SetToBag({[kind |-> "toggle", id |-> t,
                                       completed |-> ~tasks[t].completed,
                                       tasks |-> tasks, phase |-> "sent"]})
    /\ UNCHANGED <<tLoading, tError, tasks, editingTask, showCreateForm, formVars,
                   taskStoreVars, dashVars, clockVars, streakVars, habitStoreVars,
                   habitPageVars, processVars>>

\* handleToggleComplete(task) with task.isBlocked: the alert and the return
handleToggleComplete_Blocked(t) ==
    /\ RowShown(t)
    /\ ~FormVisible
    /\ CheckboxEnabled(t)
    /\ tasks[t].isBlocked
    /\ UNCHANGED vars

\* handleToggleComplete(task) up to the update: the closure keeps the tasks
\* of the render the click happened in
handleToggleComplete(t) ==
    /\ RowShown(t)
    /\ ~FormVisible
    /\ CheckboxEnabled(t)
    /\ ~tasks[t].isBlocked
    /\ tCallCount < MaxTaskOps
    /\ tCallCount' = tCallCount + 1
    /\ tCalls' = tCalls (+) SetToBag({[kind |-> "toggle", id |-> t,
                                       completed |-> ~tasks[t].completed,
                                       tasks |-> tasks, phase |-> "sent"]})
    /\ UNCHANGED <<tLoading, tError, tasks, editingTask, showCreateForm, formVars,
                   taskStoreVars, dashVars, clockVars, streakVars, habitStoreVars,
                   habitPageVars, processVars>>

\* handleDeleteTask(taskId) up to the delete
handleDeleteTask(t) ==
    /\ RowShown(t)
    /\ ~FormVisible
    /\ tCallCount < MaxTaskOps
    /\ tCallCount' = tCallCount + 1
    /\ tCalls' = tCalls (+) SetToBag({[kind |-> "delete", id |-> t, completed |-> FALSE,
                                       tasks |-> tasks, phase |-> "sent"]})
    /\ UNCHANGED <<tLoading, tError, tasks, editingTask, showCreateForm, formVars,
                   taskStoreVars, dashVars, clockVars, streakVars, habitStoreVars,
                   habitPageVars, processVars>>

\* the store executes the update of a toggle: .single() needs the row
StoreUpdateTask(c) ==
    /\ BagIn(c, tCalls)
    /\ c.kind = "toggle" /\ c.phase = "sent"
    /\ c.id \in DOMAIN dbTasks
    /\ dbTasks' = [dbTasks EXCEPT ![c.id] = c.completed]
    /\ tCalls' = (tCalls (-) SetToBag({c})) (+) SetToBag({[c EXCEPT !.phase = "ok"]})
    /\ UNCHANGED <<dbDeps, newTaskUsed, tLoading, tError, tasks, editingTask,
                   showCreateForm, tCallCount, formVars, dashVars, clockVars, streakVars,
                   habitStoreVars, habitPageVars, processVars>>

\* the store executes the delete of a task; its dependency rows go with it
StoreDeleteTask(c) ==
    /\ BagIn(c, tCalls)
    /\ c.kind = "delete" /\ c.phase = "sent"
    /\ dbTasks' = [t \in (DOMAIN dbTasks) \ {c.id} |-> dbTasks[t]]
    /\ dbDeps' = {d \in dbDeps : d.blocking_task_id # c.id /\ d.dependent_task_id # c.id}
    /\ tCalls' = (tCalls (-) SetToBag({c})) (+) SetToBag({[c EXCEPT !.phase = "ok"]})
    /\ UNCHANGED <<newTaskUsed, tLoading, tError, tasks, editingTask, showCreateForm,
                   tCallCount, formVars, dashVars, clockVars, streakVars, habitStoreVars,
                   habitPageVars, processVars>>

\* the rest of handleToggleComplete after the await: data is the updated row
handleToggleComplete_Return(c) ==
    /\ BagIn(c, tCalls)
    /\ c.kind = "toggle" /\ c.phase = "ok"
    /\ tCalls' = tCalls (-) SetToBag({c})
    /\ tasks' = [t \in DOMAIN c.tasks |->
                   IF t = c.id THEN [c.tasks[t] EXCEPT !.completed = c.completed]
                   ELSE c.tasks[t]]
    /\ UNCHANGED <<tLoading, tError, editingTask, showCreateForm, tCallCount, formVars,
                   taskStoreVars, dashVars, clockVars, streakVars, habitStoreVars,
                   habitPageVars, processVars>>

\* the rest of handleDeleteTask after the await
handleDeleteTask_Return(c) ==
    /\ BagIn(c, tCalls)
    /\ c.kind = "delete" /\ c.phase = "ok"
    /\ tCalls' = tCalls (-) SetToBag({c})
    /\ tasks' = [t \in (DOMAIN c.tasks) \ {c.id} |-> c.tasks[t]]
    /\ UNCHANGED <<tLoading, tError, editingTask, showCreateForm, tCallCount, formVars,
                   taskStoreVars, dashVars, clockVars, streakVars, habitStoreVars,
                   habitPageVars, processVars>>

\* the store call of a toggle or a delete fails (updateError / deleteError is
\* thrown, for a toggle also when the row is gone): the catch block sets the
\* error message
TaskCall_Error(c) ==
    /\ BagIn(c, tCalls)
    /\ c.phase = "sent"
    /\ tCalls' = tCalls (-) SetToBag({c})
    /\ tError' = TRUE
    /\ UNCHANGED <<tLoading, tasks, editingTask, showCreateForm, tCallCount, formVars,
                   taskStoreVars, dashVars, clockVars, streakVars, habitStoreVars,
                   habitPageVars, processVars>>

\* ---------------------------------------------------------------- Dashboard (tasks)
\* handleCompleteTask(taskId) of a task listed under tasksDueToday
handleCompleteTask(t) ==
    /\ ~dLoading
    /\ t \in tasksDueToday
    /\ tCallCount < MaxTaskOps
    /\ tCallCount' = tCallCount + 1
    /\ dbTasks' = IF t \in DOMAIN dbTasks THEN [dbTasks EXCEPT ![t] = TRUE] ELSE dbTasks
    /\ tasksDueToday' = tasksDueToday \ {t}
    /\ UNCHANGED <<dbDeps, newTaskUsed, dLoading, completedHabitsToday, tLoading, tError,
                   tasks, editingTask, showCreateForm, tCalls, formVars, clockVars,
                   streakVars, habitStoreVars, habitPageVars, processVars>>

\* ---------------------------------------------------------------- TaskForm
\* the "New Task" button while no form is shown: the form mounts in create
\* mode and fetchTasks lists every task of the store
OpenCreateForm ==
    /\ ~tLoading
    /\ tCalls = EmptyBag
    /\ tCallCount < MaxTaskOps
    /\ tCallCount' = tCallCount + 1
    /\ ~FormVisible
    /\ showCreateForm' = TRUE
    /\ availableTasks' = DOMAIN dbTasks
    /\ selectedBlockingTaskIds' = {}
    /\ depsFetch' = "none"
    /\ formError' = FALSE
    /\ UNCHANGED <<tLoading, tError, tasks, editingTask, tCalls,
                   taskStoreVars, dashVars, clockVars, streakVars, habitStoreVars,
                   habitPageVars, processVars>>

\* variant: fetchTasks lists the edited task among the available blockers
OpenEditForm_NoFilter(t) ==
    /\ RowShown(t)
    /\ tCalls = EmptyBag
    /\ tCallCount < MaxTaskOps
    /\ tCallCount' = tCallCount + 1
    /\ ~tasks[t].completed
    /\ editingTask' = <<tasks[t]>>
    /\ availableTasks' = DOMAIN dbTasks
    /\ selectedBlockingTaskIds' = {}
    /\ depsFetch' = "pending"
    /\ formError' = FALSE
    /\ UNCHANGED <<tLoading, tError, tasks, showCreateForm, tCalls,
                   taskStoreVars, dashVars, clockVars, streakVars, habitStoreVars,
                   habitPageVars, processVars>>

\* the edit button of a row (disabled for a completed task): the form mounts
\* with initialData = task, fetchTasks leaves the task itself out and
\* fetchDependencies is started
OpenEditForm(t) ==
    /\ RowShown(t)
    /\ tCalls = EmptyBag
    /\ tCallCount < MaxTaskOps
    /\ tCallCount' = tCallCount + 1
    /\ ~tasks[t].completed
    /\ editingTask' = <<tasks[t]>>
    /\ availableTasks' = (DOMAIN dbTasks) \ {t}
    /\ selectedBlockingTaskIds' = {}
    /\ depsFetch' = "pending"
    /\ formError' = FALSE
    /\ UNCHANGED <<tLoading, tError, tasks, showCreateForm, tCalls,
                   taskStoreVars, dashVars, clockVars, streakVars, habitStoreVars,
                   habitPageVars, processVars>>

\* fetchDependencies returns the stored blockers of the edited task
fetchDependencies ==
    /\ editingTask # <<>>
    /\ depsFetch = "pending"
    /\ depsFetch' = "done"
    /\ selectedBlockingTaskIds' =
          {d.blocking_task_id : d \in {e \in dbDeps :
                                          e.dependent_task_id = editingTask[1].id}}
    /\ UNCHANGED <<availableTasks, formError, taskPageVars, taskStoreVars, dashVars,
                   clockVars, streakVars, habitStoreVars, habitPageVars, processVars>>

\* fetchDependencies fails
fetchDependencies_Error ==
    /\ editingTask # <<>>
    /\ depsFetch = "pending"
    /\ depsFetch' = "failed"
    /\ formError' = TRUE
    /\ UNCHANGED <<availableTasks, selectedBlockingTaskIds, taskPageVars, taskStoreVars,
                   dashVars, clockVars, streakVars, habitStoreVars, habitPageVars,
                   processVars>>

\* the multi-select changes
handleDependencyChange(selectedIds) ==
    /\ FormVisible
    /\ selectedIds \subseteq availableTasks
    /\ selectedIds # selectedBlockingTaskIds
    /\ selectedBlockingTaskIds' = selectedIds
    /\ UNCHANGED <<availableTasks, depsFetch, formError, taskPageVars, taskStoreVars,
                   dashVars, clockVars, streakVars, habitStoreVars, habitPageVars,
                   processVars>>

\* the Cancel button
handleCancel ==
    /\ FormVisible
    /\ showCreateForm' = FALSE
    /\ editingTask' = <<>>
    /\ availableTasks' = {}
    /\ selectedBlockingTaskIds' = {}
    /\ depsFetch' = "none"
    /\ formError' = FALSE
    /\ UNCHANGED <<tLoading, tError, tasks, tCalls, tCallCount, taskStoreVars, dashVars,
                   clockVars, streakVars, habitStoreVars, habitPageVars, processVars>>

\* handleSaveTask(savedTask): the saved task keeps the dependency fields of
\* editingTask, or gets none when it was created
handleSaveTask(savedTask) ==
    LET taskWithGoal ==
            [id |-> savedTask.id,
             completed |-> savedTask.completed,
             blockingTasks |-> IF editingTask # <<>> THEN editingTask[1].blockingTasks
                               ELSE {},
             isBlocked |-> IF editingTask # <<>> THEN editingTask[1].isBlocked ELSE FALSE]
    IN IF editingTask # <<>>
       THEN /\ tasks' = [t \in DOMAIN tasks |->
                           IF t = savedTask.id THEN taskWithGoal ELSE tasks[t]]
            /\ editingTask' = <<>>
            /\ showCreateForm' = showCreateForm
       ELSE /\ tasks' = MapSet(tasks, savedTask.id, taskWithGoal)
            /\ editingTask' = <<>>
            /\ showCreateForm' = FALSE

\* variant: the rows of the ids no longer selected are not deleted
handleSubmit_NoRemove(failAt) ==
    /\ FormVisible
    /\ tCallCount < MaxTaskOps
    /\ tCallCount' = tCallCount + 1
    /\ LET isEditing == editingTask # <<>>
           id == IF isEditing THEN editingTask[1].id ELSE NewTaskId
           taskFails == \/ failAt = "task"
                        \/ isEditing /\ id \notin DOMAIN dbTasks
           tasksAfter == IF isEditing THEN dbTasks ELSE MapSet(dbTasks, id, FALSE)
           savedTask == [id |-> id, completed |-> tasksAfter[id]]
           existingBlockingIds ==
               {d.blocking_task_id : d \in {e \in dbDeps : e.dependent_task_id = id}}
           idsToAdd == selectedBlockingTaskIds \ existingBlockingIds
           idsToRemove == existingBlockingIds \ selectedBlockingTaskIds
           insertFails == /\ idsToAdd # {}
                          /\ \/ failAt = "insert"
                             \/ ~(idsToAdd \subseteq DOMAIN tasksAfter)
           deleteFails == idsToRemove # {} /\ failAt = "delete"
           inserted == dbDeps \cup {Edge(b, id) : b \in idsToAdd}
           deleted == {d \in inserted : ~(/\ d.dependent_task_id = id
                                          /\ d.blocking_task_id \in idsToRemove)}
       IN /\ IF isEditing THEN TRUE ELSE ~newTaskUsed
          /\ IF taskFails
             THEN /\ formError' = TRUE
                  /\ UNCHANGED <<dbTasks, dbDeps, newTaskUsed, tasks, editingTask,
                                 showCreateForm, availableTasks,
                                 selectedBlockingTaskIds, depsFetch>>
             ELSE /\ dbTasks' = tasksAfter
                  /\ newTaskUsed' = (newTaskUsed \/ ~isEditing)
                  /\ dbDeps' = IF failAt = "fetch" \/ insertFails THEN dbDeps
                               ELSE inserted
                  /\ handleSaveTask(savedTask)
                  \* the edit form unmounts; a create form shown behind it mounts
                  /\ availableTasks' = IF isEditing /\ showCreateForm
                                       THEN DOMAIN tasksAfter ELSE {}
                  /\ selectedBlockingTaskIds' = {}
                  /\ depsFetch' = "none"
                  /\ formError' = FALSE
    /\ UNCHANGED <<tLoading, tError, tCalls, dashVars, clockVars, streakVars,
                   habitStoreVars, habitPageVars, processVars>>

\* handleSubmit: the task row is saved, then the dependency rows are read,
\* inserted and deleted; failAt names the store call that fails, if any
handleSubmit(failAt) ==
    /\ FormVisible
    /\ tCallCount < MaxTaskOps
    /\ tCallCount' = tCallCount + 1
    /\ LET isEditing == editingTask # <<>>
           id == IF isEditing THEN editingTask[1].id ELSE NewTaskId
           taskFails == \/ failAt = "task"
                        \/ isEditing /\ id \notin DOMAIN dbTasks
           tasksAfter == IF isEditing THEN dbTasks ELSE MapSet(dbTasks, id, FALSE)
           savedTask == [id |-> id, completed |-> tasksAfter[id]]
           existingBlockingIds ==
               {d.blocking_task_id : d \in {e \in dbDeps : e.dependent_task_id = id}}
           idsToAdd == selectedBlockingTaskIds \ existingBlockingIds
           idsToRemove == existingBlockingIds \ selectedBlockingTaskIds
           insertFails == /\ idsToAdd # {}
                          /\ \/ failAt = "insert"
                             \/ ~(idsToAdd \subseteq DOMAIN tasksAfter)
           deleteFails == idsToRemove # {} /\ failAt = "delete"
           inserted == dbDeps \cup {Edge(b, id) : b \in idsToAdd}
           deleted == {d \in inserted : ~(/\ d.dependent_task_id = id
                                          /\ d.blocking_task_id \in idsToRemove)}
       IN /\ IF isEditing THEN TRUE ELSE ~newTaskUsed
          /\ IF taskFails
             THEN /\ formError' = TRUE
                  /\ UNCHANGED <<dbTasks, dbDeps, newTaskUsed, tasks, editingTask,
                                 showCreateForm, availableTasks,
                                 selectedBlockingTaskIds, depsFetch>>
             ELSE /\ dbTasks' = tasksAfter
                  /\ newTaskUsed' = (newTaskUsed \/ ~isEditing)
                  /\ dbDeps' = IF failAt = "fetch" \/ insertFails THEN dbDeps
                               ELSE IF deleteFails THEN inserted
                               ELSE deleted
                  /\ handleSaveTask(savedTask)
                  \* the edit form unmounts; a create form shown behind it mounts
                  /\ availableTasks' = IF isEditing /\ showCreateForm
                                       THEN DOMAIN tasksAfter ELSE {}
                  /\ selectedBlockingTaskIds' = {}
                  /\ depsFetch' = "none"
                  /\ formError' = FALSE
    /\ UNCHANGED <<tLoading, tError, tCalls, dashVars, clockVars, streakVars,
                   habitStoreVars, habitPageVars, processVars>>

\* ---------------------------------------------------------------- the task pages together
DepSeeds == {{}, {Edge("A", "C"), Edge("B", "C")}, {Edge("A", "B"), Edge("B", "C")}}

TasksInit ==
    /\ dbTasks \in [TaskIds -> BOOLEAN]
    /\ dbDeps \in DepSeeds
    /\ newTaskUsed = FALSE
    /\ tLoading = TRUE
    /\ tError = FALSE
    /\ tasks = EmptyMap
    /\ editingTask = <<>>
    /\ showCreateForm = FALSE
    /\ tCalls = EmptyBag
    /\ tCallCount = 0
    /\ availableTasks = {}
    /\ selectedBlockingTaskIds = {}
    /\ depsFetch = "none"
    /\ formError = FALSE
    /\ ClockIdle
    /\ StreakIdle
    /\ HabitsIdle
    /\ ProcessIdle

\* the list of the Tasks page and the Dashboard
TasksNext ==
    \/ fetchTasksAndDeps
    \/ \E t \in AllTaskIds : handleToggleComplete_Blocked(t)
    \/ \E t \in AllTaskIds : handleToggleComplete(t)
    \/ \E t \in AllTaskIds : handleDeleteTask(t)
    \/ \E c \in BagToSet(tCalls) : StoreUpdateTask(c)
    \/ \E c \in BagToSet(tCalls) : StoreDeleteTask(c)
    \/ \E c \in BagToSet(tCalls) : handleToggleComplete_Return(c)
    \/ \E c \in BagToSet(tCalls) : handleDeleteTask_Return(c)
    \/ \E c \in BagToSet(tCalls) : TaskCall_Error(c)
    \/ DashboardFetchData
    \/ \E t \in AllTaskIds : handleCompleteTask(t)

TasksSpec == TasksInit /\ [][TasksNext]_vars

\* the Tasks page with its form: the list and the task form
TaskFormNext ==
    \/ fetchTasksAndDeps
    \/ \E t \in AllTaskIds : handleToggleComplete_Blocked(t)
    \/ \E t \in AllTaskIds : handleToggleComplete(t)
    \/ \E t \in AllTaskIds : handleDeleteTask(t)
    \/ \E c \in BagToSet(tCalls) : StoreUpdateTask(c)
    \/ \E c \in BagToSet(tCalls) : StoreDeleteTask(c)
    \/ \E c \in BagToSet(tCalls) : handleToggleComplete_Return(c)
    \/ \E c \in BagToSet(tCalls) : handleDeleteTask_Return(c)
    \/ \E c \in BagToSet(tCalls) : TaskCall_Error(c)
    \/ OpenCreateForm
    \/ \E t \in AllTaskIds : OpenEditForm(t)
    \/ fetchDependencies
    \/ fetchDependencies_Error
    \/ \E selectedIds \in SUBSET AllTaskIds : handleDependencyChange(selectedIds)
    \/ handleCancel
    \/ \E failAt \in {"none", "task", "fetch", "insert", "delete"} : handleSubmit(failAt)

TaskFormSpec == TasksInit /\ [][TaskFormNext]_vars

\* ---------------------------------------------------------------- processTasksWithDependencies on arbitrary arguments
\* the two queries of fetchTasksAndDeps are separate reads, so the
\* dependencies may name a blocking task that the task list does not hold
ProcessInit ==
    /\ \E ids \in SUBSET TaskIds : pRawTasks \in [ids -> BOOLEAN]
    /\ pDependencies \in SUBSET {Edge(b, d) : <<b, d>> \in {x \in TaskIds \X TaskIds : x[1] # x[2]}}
    /\ pDone = FALSE
    /\ pResult = EmptyMap
    /\ ClockIdle
    /\ StreakIdle
    /\ HabitsIdle
    /\ TasksIdle

ProcessApply ==
    /\ ~pDone
    /\ pDone' = TRUE
    /\ pResult' = processTasksWithDependencies(pRawTasks, pDependencies)
    /\ UNCHANGED <<pRawTasks, pDependencies, clockVars, streakVars, habitStoreVars,
                   habitPageVars, dashVars, taskVars>>

ProcessNext == ProcessApply

ProcessSpec == ProcessInit /\ [][ProcessNext]_vars

\* ---------------------------------------------------------------- reference notions for the streak claims
DateSet(evs) == {evs[i].event_date : i \in 1..Len(evs)}

MaxDate(evs) == CHOOSE d \in DateSet(evs) : \A e \in DateSet(evs) : e <= d

\* number of consecutive days, each in S, that end at day d
RunEndingAt(S, d) ==
    IF d \notin S THEN 0
    ELSE CHOOSE n \in 1..(Cardinality(S)) :
            /\ \A k \in 0..(n - 1) : (d - k) \in S
            /\ (d - n) \notin S

\* longest run of consecutive days that are all in S
MaxRun(S) ==
    IF S = {} THEN 0
    ELSE CHOOSE n \in 1..Cardinality(S) :
            /\ \E d \in S : RunEndingAt(S, d) = n
            /\ \A d \in S : RunEndingAt(S, d) <= n

\* the list without the later events of a date already seen
RECURSIVE Dedup(_)
Dedup(evs) ==
    IF evs = <<>> THEN <<>>
    ELSE LET front == Dedup(SubSeq(evs, 1, Len(evs) - 1))
             last == evs[Len(evs)]
         IN IF last.event_date \in DateSet(front) THEN front ELSE Append(front, last)

NoDuplicateDates(evs) == Cardinality(DateSet(evs)) = Len(evs)

\* the events are exactly N >= 1 consecutive days, the last being asOf
ConsecutiveEndingToday(evs) ==
    /\ Len(evs) >= 1
    /\ NoDuplicateDates(evs)
    /\ DateSet(evs) = {d \in Days : localDay - Len(evs) < d /\ d <= localDay}

\* C2: N consecutive daily dates ending today give current streak N and
\* longest streak at least N
C2_ConsecutiveRunGivesN ==
    (sDone /\ ConsecutiveEndingToday(sEvents))
        => (sCurrent = Len(sEvents) /\ sLongest >= Len(sEvents))

\* C3: when the most recent completion is yesterday, the current streak is
\* the length of the gap-free run that ends yesterday
C3_YesterdayRunCounts ==
    (sDone /\ sEvents # <<>> /\ MaxDate(sEvents) = localDay - 1)
        => sCurrent = RunEndingAt(DateSet(sEvents), localDay - 1)

\* C4: same-date duplicates do not change the current streak
C4_DuplicatesDoNotChangeCurrent ==
    sDone => sCurrent = calculateCurrentStreak(Dedup(sEvents))

\* C5: the total-completions figure of a habit is the number of distinct
\* completion dates of its events, after the fetch and after every
\* track/un-track
C5_TotalIsDistinctDates ==
    ~hLoading =>
        \A h \in DOMAIN totalCompletions :
            totalCompletions[h] = Cardinality(DateSet(Get(allProgress, h, <<>>)))

\* C6: the longest streak is the maximum number of consecutive calendar days
\* that each have at least one event, for any order and any duplicates
C6_LongestIsMaxRun ==
    sDone => sLongest = MaxRun(DateSet(sEvents))

\* the dates 0,1,2,4 (a gap on day 3) in some order have given 3
C6_Witness ==
    /\ sDone
    /\ Len(sEvents) = 4
    /\ DateSet(sEvents) = {0, 1, 2, 4}
    /\ sEvents[1].event_date = 4
    /\ sLongest = 3

\* C7: the longest streak is never less than the current streak
C7_LongestAtLeastCurrent ==
    sDone => sLongest >= sCurrent

\* C8: a most recent completion more than one day before today gives a
\* current streak of 0, whatever the history
C8_StaleStreakIsZero ==
    (sDone /\ sEvents # <<>> /\ MaxDate(sEvents) < localDay - 1)
        => sCurrent = 0

\* a stale history of MaxLen consecutive days has given 0
C8_Witness ==
    /\ sDone
    /\ Len(sEvents) = MaxLen
    /\ MaxRun(DateSet(sEvents)) = MaxLen
    /\ MaxDate(sEvents) < localDay - 1
    /\ sCurrent = 0

\* C9: a task is marked blocked exactly when some dependency names it as the
\* dependent and names a blocking task that is in the task list and is
\* incomplete; no incoming edge means not blocked, and an edge whose blocking
\* task is missing from the list is ignored
C9_BlockedIffIncompleteBlocker ==
    pDone =>
        /\ DOMAIN pResult = DOMAIN pRawTasks
        /\ \A t \in DOMAIN pResult :
              pResult[t].isBlocked <=>
                  \E d \in pDependencies :
                      /\ d.dependent_task_id = t
                      /\ d.blocking_task_id \in DOMAIN pRawTasks
                      /\ ~pRawTasks[d.blocking_task_id]

\* one task is blocked by an incomplete task of the list while another has
\* only a dangling edge and is not blocked
C9_Witness ==
    /\ pDone
    /\ DOMAIN pRawTasks = {"A", "C"}
    /\ ~pRawTasks["A"]
    /\ pDependencies = {Edge("A", "C"), Edge("B", "A")}
    /\ pResult["C"].isBlocked
    /\ ~pResult["A"].isBlocked

\* the stored dependency edges name an incomplete stored task as a blocker of t
HasIncompleteBlocker(t) ==
    \E d \in dbDeps :
        /\ d.dependent_task_id = t
        /\ d.blocking_task_id \in DOMAIN dbTasks
        /\ ~dbTasks[d.blocking_task_id]

\* C1: no step changes a stored task from incomplete to complete while a
\* task that blocks it is still incomplete, on the Tasks page and on the
\* Dashboard
C1_NoCompletionWhileBlocked ==
    [][\A t \in DOMAIN dbTasks :
          (t \in DOMAIN dbTasks' /\ ~dbTasks[t] /\ dbTasks'[t]) => ~HasIncompleteBlocker(t)]_vars

\* C10: when the Tasks page has recorded the completion of a task, no task
\* of the page stays marked blocked whose blockers are all complete in the
\* page state
C10_CompletionUnblocksDependents ==
    [][\A c \in BagToSet(tCalls) :
          (handleToggleComplete_Return(c) /\ c.completed) =>
              \A t \in DOMAIN tasks' :
                  (/\ \E b \in tasks'[t].blockingTasks : b.id = c.id
                   /\ \A b \in tasks'[t].blockingTasks :
                         b.id \in DOMAIN tasks' /\ tasks'[b.id].completed)
                      => ~tasks'[t].isBlocked]_vars

\* ---------------------------------------------------------------- reference notions for the dependency claims
\* the tasks that edges E make (transitively) blocked by task a
RECURSIVE BlockedFrom(_, _)
BlockedFrom(E, S) ==
    LET next == S \cup {e.dependent_task_id : e \in {x \in E : x.blocking_task_id \in S}}
    IN IF next = S THEN S ELSE BlockedFrom(E, next)

\* task b is blocked by task a, directly or through other tasks
TransitivelyBlockedBy(E, b, a) ==
    b \in BlockedFrom(E, {e.dependent_task_id : e \in {x \in E : x.blocking_task_id = a}})

\* C11: no step stores an edge "d blocked by b" while b is already
\* (transitively) blocked by d, i.e. no stored edge closes a cycle
C11_CycleRejected ==
    [][\A e \in dbDeps' \ dbDeps :
          ~TransitivelyBlockedBy(dbDeps, e.blocking_task_id, e.dependent_task_id)]_vars

\* C12: no stored dependency edge names the same task as blocker and as
\* dependent, and the task being edited is never among the selected blockers
C12_NoSelfDependency ==
    /\ \A e \in dbDeps : e.blocking_task_id # e.dependent_task_id
    /\ IF editingTask = <<>> THEN TRUE
       ELSE editingTask[1].id \notin selectedBlockingTaskIds

\* the edit form of A has stored the new edge "A blocked by C"
C12_Witness ==
    /\ Edge("C", "A") \in dbDeps
    /\ editingTask = <<>>
    /\ "A" \in DOMAIN tasks

C14_IncrementalEqualsRecompute ==
    [][\A c \in BagToSet(hCalls) :
          (handleTrackHabit_Return(c) \/ handleTrackHabit_ReturnNoRow(c)) =>
              LET h == c.habitId
                  list == Get(allProgress', h, <<>>)
              IN /\ habitStreaks'[h] = calculateCurrentStreak(list)
                 /\ longestStreaks'[h] = calculateLongestStreak(list)
                 /\ totalCompletions'[h] = Len(list)]_vars

\* C15: the store never holds two completion events of one habit for one
\* day
C15_AtMostOneEventPerDay ==
    \A e1 \in dbProgress, e2 \in dbProgress :
        (e1.habit_id = e2.habit_id /\ e1.event_date = e2.event_date) => e1 = e2

\* the events of habit h in the store, as a list
OwnEvents(h) == QueryOrder({e \in dbProgress : e.habit_id = h}, TRUE)

\* C16: every habit of the list has an entry in the current-streak,
\* longest-streak and total maps; a fetch computes them from the habit's own
\* stored events (0, 0, 0 without events), and a created habit gets 0, 0, 0
\* and an empty event list
C16_EveryHabitHasAnalytics ==
    [][/\ \A h \in habits' :
             /\ h \in DOMAIN habitStreaks'
             /\ h \in DOMAIN longestStreaks'
             /\ h \in DOMAIN totalCompletions'
       /\ fetchData =>
             \A h \in habits' :
                 /\ habitStreaks'[h] = calculateCurrentStreak(OwnEvents(h))
                 /\ longestStreaks'[h] = calculateLongestStreak(OwnEvents(h))
                 /\ totalCompletions'[h] = Len(OwnEvents(h))
       /\ handleSaveHabit(NewHabitId, FALSE) =>
             /\ NewHabitId \in habits'
             /\ habitStreaks'[NewHabitId] = 0
             /\ longestStreaks'[NewHabitId] = 0
             /\ totalCompletions'[NewHabitId] = 0
             /\ allProgress'[NewHabitId] = <<>>]_vars

\* after a fetch h1 has no events and 0, 0, 0, h2 has its own figures, and
\* the created habit is in the list with 0, 0, 0
C16_Witness ==
    /\ ~hLoading
    /\ habits = AllHabits
    /\ OwnEvents("h1") = <<>>
    /\ habitStreaks["h1"] = 0 /\ longestStreaks["h1"] = 0 /\ totalCompletions["h1"] = 0
    /\ longestStreaks["h2"] = 1 /\ totalCompletions["h2"] = 1
    /\ habitStreaks[NewHabitId] = 0
    /\ allProgress[NewHabitId] = <<>>

\* C17: when the Tasks page has recorded that a task was reverted to
\* incomplete, every task of the page that lists it as a blocker is marked
\* blocked
C17_RevertBlocksDependents ==
    [][\A c \in BagToSet(tCalls) :
          (handleToggleComplete_Return(c) /\ ~c.completed) =>
              \A t \in DOMAIN tasks' :
                  (\E b \in tasks'[t].blockingTasks : b.id = c.id) => tasks'[t].isBlocked]_vars

\* C18: when the form has saved a task with an incomplete task among the
\* selected blockers and every store call succeeded, the saved task is
\* marked blocked in the page state and lists that blocker
C18_SavedWithBlockerIsBlocked ==
    [][handleSubmit("none") =>
          LET id == IF editingTask # <<>> THEN editingTask[1].id ELSE NewTaskId
          IN \A b \in selectedBlockingTaskIds :
                (b \in DOMAIN dbTasks' /\ ~dbTasks'[b]) =>
                    /\ id \in DOMAIN tasks'
                    /\ tasks'[id].isBlocked
                    /\ \E x \in tasks'[id].blockingTasks : x.id = b]_vars

\* C19: a task shown as complete and blocked can be reverted to incomplete
\* by its checkbox
C19_CompletedBlockedCanBeReverted ==
    \A t \in DOMAIN tasks :
        (/\ RowShown(t)
         /\ ~FormVisible
         /\ tasks[t].completed
         /\ tasks[t].isBlocked
         /\ tCallCount < MaxTaskOps) => ENABLED handleToggleComplete(t)

\* the blockers named in the "Blocked by" line of task t
NamedBlockers(t) == {b.id : b \in {x \in tasks[t].blockingTasks : ~x.completed}}

\* C20: the blockers named for a task shown as blocked are exactly its
\* blocking tasks whose completed flag in the page state is false
C20_NamedBlockersAreIncompleteOnes ==
    \A t \in DOMAIN tasks :
        (RowShown(t) /\ tasks[t].isBlocked) =>
            NamedBlockers(t) =
                {b.id : b \in {x \in tasks[t].blockingTasks :
                                  x.id \in DOMAIN tasks /\ ~tasks[x.id].completed}}

\* C21: when handleTrackHabit has recorded a completion stamped with the
\* current date of getTodayDateString, the habit's current streak is at
\* least 1, whatever the offset between the local and the UTC date
C21_MarkedTodayGivesStreak ==
    [][\A c \in BagToSet(hCalls) :
          (/\ handleTrackHabit_Return(c)
           /\ ~c.wasCompletedToday
           /\ c.event.event_date = getTodayDateString) => habitStreaks'[c.habitId] >= 1]_vars

\* what the page and the store hold for habit h
HabitEntries(h) ==
    <<Get(allProgress, h, <<>>), Get(habitStreaks, h, 0), Get(longestStreaks, h, 0),
      Get(totalCompletions, h, 0), Get(todaysProgressMap, h, FALSE), OwnEvents(h)>>

\* a step of handleTrackHabit for habit h
TrackStepOf(h) ==
    \/ handleTrackHabit_Track(h)
    \/ handleTrackHabit_Untrack(h)
    \/ handleTrackHabit_NotFound(h)
    \/ \E c \in BagToSet(hCalls) :
          /\ c.habitId = h
          /\ \/ StoreProgressOk(c)
             \/ handleTrackHabit_Return(c)
             \/ handleTrackHabit_ReturnNoRow(c)
             \/ handleTrackHabit_Error(c)

\* C22: a track or un-track of habit h, successful or failed, leaves the
\* event list, the streaks, the total, the completed-today flag and the
\* stored events of every other habit as they were
C22_TrackTouchesOnlyItsHabit ==
    [][\A h \in AllHabits : TrackStepOf(h) =>
          \A o \in AllHabits \ {h} : HabitEntries(o)' = HabitEntries(o)]_vars

\* a track of h1 has returned while h2 has events and a streak
C22_Witness ==
    /\ hCalls = EmptyBag
    /\ ~hLoading
    /\ Get(allProgress, "h1", <<>>) # <<>>
    /\ Get(allProgress, "h1", <<>>)[1].id <= MaxCalls
    /\ Get(allProgress, "h2", <<>>) # <<>>
    /\ Get(habitStreaks, "h2", 0) >= 1

\* the blocking ids of the edges of deps whose dependent is t
BlockersIn(deps, t) == {d.blocking_task_id : d \in {e \in deps : e.dependent_task_id = t}}

StoredBlockers(t) == BlockersIn(dbDeps, t)

\* the task the open form saves
FormTaskId == IF editingTask # <<>> THEN editingTask[1].id ELSE NewTaskId

\* the edges of deps whose dependent is not t
OtherEdges(deps, t) == {e \in deps : e.dependent_task_id # t}

\* C23: after a save whose dependency step succeeds for task T, the stored
\* blockers of T are exactly the selected ids: only the selected ids not yet
\* stored are inserted, only the stored ids no longer selected are deleted
\* (none of either is a no-op, so saving the same selection again changes
\* nothing), and the edges of the other dependents are unchanged
C23_StoredEdgesEqualSelection ==
    [][(/\ handleSubmit("none")
        /\ FormTaskId \in DOMAIN dbTasks'
        /\ selectedBlockingTaskIds \subseteq DOMAIN dbTasks') =>
          LET T == FormTaskId
          IN /\ BlockersIn(dbDeps', T) = selectedBlockingTaskIds
             /\ dbDeps' \ dbDeps = {Edge(b, T) : b \in selectedBlockingTaskIds \ StoredBlockers(T)}
             /\ dbDeps \ dbDeps' = {Edge(b, T) : b \in StoredBlockers(T) \ selectedBlockingTaskIds}
             /\ (selectedBlockingTaskIds = StoredBlockers(T) => dbDeps' = dbDeps)
             /\ OtherEdges(dbDeps', T) = OtherEdges(dbDeps, T)]_vars

\* the edit of C has replaced its blocker B by A: one edge inserted, one
\* deleted, the edge of dependent B kept
C23_Witness ==
    /\ dbDeps = {Edge("A", "B"), Edge("A", "C")}
    /\ editingTask = <<>>
    /\ "C" \in DOMAIN tasks

\* C24: when the most recent completion date is later than the day
\* calculateCurrentStreak takes as today, the current streak is 0
C24_FutureEventGivesZero ==
    (sDone /\ sEvents # <<>> /\ MaxDate(sEvents) > localDay)
        => sCurrent = 0

\* a history of MaxLen consecutive days ending tomorrow has given 0
C24_Witness ==
    /\ sDone
    /\ Len(sEvents) = MaxLen
    /\ MaxRun(DateSet(sEvents)) = MaxLen
    /\ MaxDate(sEvents) = localDay + 1
    /\ sCurrent = 0

\* the events of the list evs, as a set
EventSet(evs) == {evs[i] : i \in 1..Len(evs)}

\* C25: whatever the interleaving of the track and un-track calls of a
\* habit, once every call has completed the local event list of the habit
\* holds exactly the events the store holds for it
C25_LocalListEqualsStore ==
    (~hLoading /\ ~hError /\ hCalls = EmptyBag) =>
        \A h \in habits :
            EventSet(Get(allProgress, h, <<>>)) = {e \in dbProgress : e.habit_id = h}

\* C26: in every state of the loaded Habits page the completed-today flag of
\* a habit is true exactly when its local event list holds an event dated
\* today; so after an un-track, which sets the flag to false, the list holds
\* no event dated today, also when it held several
C26_FlagIffEventToday ==
    ~hLoading =>
        \A h \in habits :
            Get(todaysProgressMap, h, FALSE) <=>
                TodaysEvents(Get(allProgress, h, <<>>)) # <<>>

\* the selection of the open edit form is the one the form came up with:
\* the stored blockers once fetchDependencies has returned, the initial
\* empty selection while it is pending or after it failed
SelectionUntouched ==
    /\ editingTask # <<>>
    /\ selectedBlockingTaskIds =
          IF depsFetch = "done" THEN StoredBlockers(editingTask[1].id) ELSE {}

\* C27: submitting the edit of a task with the dependency selection as the
\* form came up with it leaves the stored edges unchanged, also when the
\* load of the existing dependencies is still pending or has failed
C27_UntouchedSelectionKeepsEdges ==
    [][(SelectionUntouched /\ handleSubmit("none")) => dbDeps' = dbDeps]_vars

\* C28: whatever the interleaving of the toggles and deletes of the Tasks
\* page, once every call has completed the local task list has the tasks of
\* the store with the store's completed flags
C28_LocalTasksEqualStore ==
    (~tLoading /\ ~tError /\ tCalls = EmptyBag) =>
        /\ DOMAIN tasks = DOMAIN dbTasks
        /\ \A t \in DOMAIN tasks : tasks[t].completed = dbTasks[t]

\* the call failAt of the dependency step of the open form's save is made
\* and returns an error: the read is always made, the insert only when some
\* selected id is not stored, the delete only when some stored id is not
\* selected
DependencyStepFails(failAt) ==
    \/ failAt = "fetch"
    \/ failAt = "insert" /\ selectedBlockingTaskIds \ StoredBlockers(FormTaskId) # {}
    \/ failAt = "delete" /\ StoredBlockers(FormTaskId) \ selectedBlockingTaskIds # {}

\* C29: when the read, the insert or the delete of the dependency step of a
\* task save returns an error, the stored edges are the same as before the
\* save
C29_FailedDependencyStepKeepsEdges ==
    [][\A failAt \in {"fetch", "insert", "delete"} :
          (DependencyStepFails(failAt) /\ handleSubmit(failAt)) => dbDeps' = dbDeps]_vars

\* the maps of the Habits page
PageMaps == <<allProgress, todaysProgressMap, habitStreaks, longestStreaks, totalCompletions>>

C30_WitnessNotFound ==
    ENABLED handleTrackHabit_NotFound("h1")

====
